---- MODULE Spec2Model ----
(***************************************************************************)
(* Model of the banshee detector (detector/detector.go): a tcp server that *)
(* runs one goroutine per accepted connection (Detector.handle).  Every    *)
(* line read from the connection is parsed, matched against the blacklist, *)
(* the hit cache and the rule set (Detector.match), scored against the     *)
(* state db (Detector.detect) and sent without blocking to the buffered    *)
(* results channel d.rc.                                                   *)
(*                                                                         *)
(* Each action is one step of one goroutine that touches shared state at   *)
(* most once (one cache call, one db call, one channel operation), so the  *)
(* interleavings of the model are the interleavings of the goroutines.     *)
(***************************************************************************)
EXTENDS Integers, Sequences, FiniteSets, TLC

\* ---------------------------------------------------------------- bounds
\* Lines read from all connections together before the streams must end.
MaxLines == 3
\* Number of times the rule set kept by the admin db is edited.
MaxRuleChanges == 1
\* Capacity of d.rc.  The program uses 10 * 1024 (detector.go:24); the model
\* scales it down so that a full channel is reached.
bufferedMetricResultsLimit == 2

\* cfg.LeastC(), handed to cursor.New (detector.go:47): the sample count
\* from which a metric's state is warm.  A configuration value; the model
\* takes a small one so that warm states are reached.
LeastC == 2

\* The connections accepted by Start, one goroutine each: two, the least
\* number that has handlers run concurrently.
Conns == {1, 2}

\* ------------------------------------------------------------ data model
\* Metric names and patterns are sequences of dot separated segments.
FooBar     == <<"foo", "bar">>
SvcLatency == <<"svc", "latency">>
SvcCpu     == <<"svc", "cpu">>
Names      == {FooBar, SvcLatency, SvcCpu}

\* cfg.Detector.BlackList: fixed for the life of the process.
BlackList == << <<"foo", "*">> >>

NoRule == [id |-> 0, pattern |-> <<>>]
Rule(i, p) == [id |-> i, pattern |-> p]

\* The rule sets the admin db may hold, in rule-set order.  Under RuleSetA
\* two rules match svc.latency, one matches the blacklisted foo.bar and none
\* matches svc.cpu; under RuleSetC it is svc.cpu that is matched.
RuleSetA == << Rule(1, <<"svc", "latency">>), Rule(2, <<"*", "latency">>), Rule(3, <<"foo", "*">>) >>
RuleSetC == << Rule(4, <<"*", "cpu">>) >>
RuleSets == {RuleSetA, RuleSetC}

\* A metric; conn and seq say which line of which connection it was parsed
\* from, put (a history field) whether its next state was put to the db.
NoMetric == [name |-> <<>>, conn |-> 0, seq |-> 0, put |-> FALSE]
NoSnapshot == [version |-> 0, rules |-> <<>>]
NoEntry == [hit |-> FALSE, matched |-> FALSE, rule |-> NoRule, src |-> "none", ver |-> 0]

\* A line is its sequence of fields: name, value, timestamp.
GoodLine(n) == <<n, "100", "1700000000">>
BadLine == <<SvcCpu, "100">>

VARIABLES
    pc,        \* pc[c]: position of the goroutine handling connection c
    nread,     \* nread[c]: lines read from connection c so far
    m,         \* m[c]: the metric being processed by handler c
    rules,     \* rules[c]: the rule set fetched by handler c in match
    s,         \* s[c]: result of d.db.State.Get in detect of handler c
    rc,        \* d.rc, the buffered results channel
    hitCache,  \* d.hitCache: [wlc: name -> entry, rules: snapshot]
    admin,     \* d.db.Admin: [version, rules], the current rule set
    state,     \* d.db.State: name -> sample count (0: not found)
    open,      \* connections accepted and not yet closed
    ended,     \* connections whose stream ended or whose read failed
    consumed,  \* history: metrics received from d.rc, in order
    scored,    \* history: number of metrics for which detect returned nil
    detectErrs,\* history: number of "detect: ..., skipping.." errors logged
    drops,     \* history: number of "channel is full, drop" warnings logged
    parseErrs  \* history: number of "parse ..., skipping.." errors logged

vars == <<pc, nread, m, rules, s, rc, hitCache, admin, state, open, ended,
          consumed, scored, detectErrs, drops, parseErrs>>

hist == <<consumed, scored, detectErrs, drops, parseErrs>>

\* ------------------------------------------------------- pure operators
Min(S) == CHOOSE i \in S : \A j \in S : i <= j
Max(S) == CHOOSE i \in S : \A j \in S : i >= j

\* util.Match(name, pattern): glob match, "*" stands for any one segment.
Match(name, pattern) ==
    /\ Len(name) = Len(pattern)
    /\ \A i \in 1..Len(name) : pattern[i] = "*" \/ pattern[i] = name[i]

\* parseMetric(line): a line needs a non-empty name, a value and a timestamp.
parseMetric(line) ==
    IF Len(line) = 3 /\ Len(line[1]) > 0
    THEN [err |-> FALSE, name |-> line[1]]
    ELSE [err |-> TRUE, name |-> <<>>]

\* newCache(): nothing cached, no rule set seen.
newCache == [wlc |-> [n \in Names |-> NoEntry], rules |-> NoSnapshot]

\* cache.hitWhiteListCache(m): (hit, v) for the metric's name.
hitWhiteListCache(c, name) == [hit |-> c.wlc[name].hit, v |-> c.wlc[name].matched]

\* cache.setWLC(m, rule, v).  src and ver are history fields of the entry:
\* which scan produced it and under which rule-set version.
setWLC(c, name, rule, v, src, ver) ==
    [c EXCEPT !.wlc[name] =
        [hit |-> TRUE, matched |-> v, rule |-> rule, src |-> src, ver |-> ver]]

\* cache.updateRules(rules): when the rule set given is not the one last
\* seen (compared by version token), forget every entry and remember it.
updateRules(c, snap) ==
    IF snap.version # c.rules.version
    THEN [wlc |-> [n \in Names |-> NoEntry], rules |-> snap]
    ELSE c

\* d.db.Admin.GetRules(): the current rule set.
GetRules(a) == a

\* cursor.Next(s, m): the next state; the state is abstracted to its sample
\* count, 0 standing for no previous state (nil).
cursorNext(cnt, metric) == cnt + 1

\* d.db.State.Get(m): the stored state, or ErrNotFound, or an i/o error.
Get(st, metric, ioerr) ==
    IF ioerr THEN [s |-> 0, err |-> "error"]
    ELSE IF st[metric.name] = 0 THEN [s |-> 0, err |-> "ErrNotFound"]
    ELSE [s |-> st[metric.name], err |-> "nil"]

\* d.db.State.Put(m, n): stores n, or fails and stores nothing.
Put(st, metric, n, ioerr) ==
    IF ioerr THEN [state |-> st, err |-> "error"]
    ELSE [state |-> [st EXCEPT ![metric.name] = n], err |-> "nil"]

\* match, lines 119-125: does the name hit a black pattern?
BlackListHitNever(name) == FALSE
BlackListHit(name) == \E i \in 1..Len(BlackList) : Match(name, BlackList[i])

\* match, lines 130-135: position of the rule the range loop returns on
\* (0: the loop ends without a hit).
FirstRuleLast(rs, name) ==
    LET hits == {i \in 1..Len(rs) : Match(name, rs[i].pattern)}
    IN  IF hits = {} THEN 0 ELSE Max(hits)
FirstRule(rs, name) ==
    LET hits == {i \in 1..Len(rs) : Match(name, rs[i].pattern)}
    IN  IF hits = {} THEN 0 ELSE Min(hits)

\* detect, lines 145-147: does detect return right after Get?
GetFailedNever(err) == FALSE
GetFailed(err) == err # "nil" /\ err # "ErrNotFound"

\* detect, lines 149-154: the state handed to cursor.Next.
PrevStateNil(r) == 0
PrevState(r) == IF r.err = "ErrNotFound" THEN 0 ELSE r.s

\* handle, lines 72-75: the deferred function closes the handler's own
\* connection.
connCloseAll(o, c) == {}
connClose(o, c) == o \ {c}

\* handle, lines 86-93: where the handler goes after parseMetric returned
\* err: a parse error is logged and the loop continues with the next line.
AfterParseClose(err) == IF err THEN "done" ELSE "match"
AfterParse(err) == IF err THEN "scan" ELSE "match"

\* handle, line 94: where the handler goes after match returned v.
AfterMatchAlways(v) == "get"
AfterMatch(v) == IF v THEN "get" ELSE "scan"

\* match, lines 114-117, and handle, line 94: on a cache hit match returns
\* the cached verdict at once; on a miss it goes on to the blacklist.
MatchAfterLookupNoShortcut(r) == "blacklist"
MatchAfterLookupInverted(r) == IF r.hit THEN AfterMatch(~r.v) ELSE "blacklist"
MatchAfterLookup(r) == IF r.hit THEN AfterMatch(r.v) ELSE "blacklist"

\* handle, lines 95-99: where the handler goes after detect returned err.
AfterDetectIgnoreErr(err) == "send"
AfterDetect(err) == IF err # "nil" THEN "scan" ELSE "send"

\* handle, lines 102-106: the select on d.rc with a default branch.
SelectSendBlocking(q, x) ==
    IF Len(q) < bufferedMetricResultsLimit
    THEN [rc |-> Append(q, x), outcome |-> "sent"]
    ELSE [rc |-> q, outcome |-> "blocked"]
SelectSendDropOldest(q, x) ==
    IF Len(q) < bufferedMetricResultsLimit
    THEN [rc |-> Append(q, x), outcome |-> "sent"]
    ELSE [rc |-> Append(Tail(q), x), outcome |-> "sent"]
SelectSendFront(q, x) ==
    IF Len(q) < bufferedMetricResultsLimit
    THEN [rc |-> <<x>> \o q, outcome |-> "sent"]
    ELSE [rc |-> q, outcome |-> "dropped"]
SelectSend(q, x) ==
    IF Len(q) < bufferedMetricResultsLimit
    THEN [rc |-> Append(q, x), outcome |-> "sent"]
    ELSE [rc |-> q, outcome |-> "dropped"]

\* Lines read so far from all connections.
RECURSIVE SumRead(_, _)
SumRead(f, S) ==
    IF S = {} THEN 0
    ELSE LET c == CHOOSE x \in S : TRUE IN f[c] + SumRead(f, S \ {c})
TotalRead == SumRead(nread, Conns)

\* ------------------------------------------------------------------ Init
\* New (lines 41-49) and the state of the collaborators at start.
Init ==
    /\ pc = [c \in Conns |-> "idle"]
    /\ nread = [c \in Conns |-> 0]
    /\ m = [c \in Conns |-> NoMetric]
    /\ rules = [c \in Conns |-> NoSnapshot]
    /\ s = [c \in Conns |-> [s |-> 0, err |-> "nil"]]
    /\ rc = <<>>
    /\ hitCache = newCache
    /\ admin = [version |-> 1, rules |-> RuleSetA]
    /\ state = [n \in Names |-> 0]
    /\ open = {}
    /\ ended = {}
    /\ consumed = <<>>
    /\ scored = 0
    /\ detectErrs = 0
    /\ drops = 0
    /\ parseErrs = 0

\* --------------------------------------------------------------- actions
\* Start, lines 59-65: accept a connection and spawn its handler.
Accept(c) ==
    /\ pc[c] = "idle"
    /\ pc' = [pc EXCEPT ![c] = "scan"]
    /\ open' = open \cup {c}
    /\ UNCHANGED <<ended, nread, m, rules, s, rc, hitCache, admin, state, hist>>

\* handle, lines 79-93: scanner.Scan() yields a line, which is parsed; a
\* line that fails to parse is logged and skipped.
ReadLine(c) ==
    /\ pc[c] = "scan"
    /\ TotalRead < MaxLines
    /\ \E line \in {GoodLine(n) : n \in Names} \cup {BadLine} :
         LET r == parseMetric(line) IN
         /\ nread' = [nread EXCEPT ![c] = @ + 1]
         /\ pc' = [pc EXCEPT ![c] = AfterParse(r.err)]
         /\ parseErrs' = IF r.err THEN parseErrs + 1 ELSE parseErrs
         /\ m' = IF r.err THEN m
                 ELSE [m EXCEPT ![c] = [name |-> r.name, conn |-> c,
                                        seq |-> nread[c] + 1, put |-> FALSE]]
    /\ UNCHANGED <<ended, rules, s, rc, hitCache, admin, state, open,
                   consumed, scored, detectErrs, drops>>

\* handle, lines 72-75 and 79-83: scanner.Scan() returns false (the stream
\* ended or a read failed), or a read error is found and the loop is left;
\* either way the deferred function closes the connection.
Close(c) ==
    /\ pc[c] = "scan"
    /\ pc' = [pc EXCEPT ![c] = "done"]
    /\ open' = connClose(open, c)
    /\ ended' = ended \cup {c}
    /\ UNCHANGED <<nread, m, rules, s, rc, hitCache, admin, state, hist>>

\* match, lines 113-117: check the cache first.
MatchCache(c) ==
    /\ pc[c] = "match"
    /\ LET r == hitWhiteListCache(hitCache, m[c].name) IN
         /\ pc' = [pc EXCEPT ![c] = MatchAfterLookup(r)]
         /\ m' = [m EXCEPT ![c] = IF MatchAfterLookup(r) = "scan" THEN NoMetric ELSE @]
    /\ UNCHANGED <<ended, nread, rules, s, rc, hitCache, admin, state, open, hist>>

\* match, lines 118-125: check the blacklist.
MatchBlackList(c) ==
    /\ pc[c] = "blacklist"
    /\ IF BlackListHit(m[c].name)
       THEN /\ hitCache' = setWLC(hitCache, m[c].name, NoRule, FALSE,
                                  "blacklist", hitCache.rules.version)
            /\ pc' = [pc EXCEPT ![c] = AfterMatch(FALSE)]
            /\ m' = [m EXCEPT ![c] = IF AfterMatch(FALSE) = "scan" THEN NoMetric ELSE @]
       ELSE /\ pc' = [pc EXCEPT ![c] = "getrules"]
            /\ UNCHANGED <<hitCache, m>>
    /\ UNCHANGED <<ended, nread, rules, s, rc, admin, state, open, hist>>

\* match, line 127: fetch the rules.
MatchGetRules(c) ==
    /\ pc[c] = "getrules"
    /\ rules' = [rules EXCEPT ![c] = GetRules(admin)]
    /\ pc' = [pc EXCEPT ![c] = "updaterules"]
    /\ UNCHANGED <<ended, nread, m, s, rc, hitCache, admin, state, open, hist>>

\* match, line 128: hand the rules to the cache.
MatchUpdateRules(c) ==
    /\ pc[c] = "updaterules"
    /\ hitCache' = updateRules(hitCache, rules[c])
    /\ pc' = [pc EXCEPT ![c] = "rules"]
    /\ UNCHANGED <<ended, nread, m, rules, s, rc, admin, state, open, hist>>

\* match, lines 130-138: scan the rules fetched; the first hit is cached.
MatchRules(c) ==
    /\ pc[c] = "rules"
    /\ LET i == FirstRule(rules[c].rules, m[c].name) IN
         IF i # 0
         THEN /\ hitCache' = setWLC(hitCache, m[c].name, rules[c].rules[i], TRUE,
                                    "rules", rules[c].version)
              /\ pc' = [pc EXCEPT ![c] = AfterMatch(TRUE)]
              /\ m' = [m EXCEPT ![c] = IF AfterMatch(TRUE) = "scan" THEN NoMetric ELSE @]
         ELSE /\ pc' = [pc EXCEPT ![c] = AfterMatch(FALSE)]
              /\ m' = [m EXCEPT ![c] = IF AfterMatch(FALSE) = "scan" THEN NoMetric ELSE @]
              /\ UNCHANGED hitCache
    /\ rules' = [rules EXCEPT ![c] = NoSnapshot]
    /\ UNCHANGED <<ended, nread, s, rc, admin, state, open, hist>>

\* detect, lines 143-147, and handle, lines 95-99: get the previous state.
DetectGet(c) ==
    /\ pc[c] = "get"
    /\ \E ioerr \in BOOLEAN :
         LET r == Get(state, m[c], ioerr) IN
         IF GetFailed(r.err)
         THEN /\ pc' = [pc EXCEPT ![c] = AfterDetect(r.err)]
              /\ m' = [m EXCEPT ![c] = IF AfterDetect(r.err) = "scan" THEN NoMetric ELSE @]
              /\ detectErrs' = IF AfterDetect(r.err) = "scan" THEN detectErrs + 1 ELSE detectErrs
              /\ UNCHANGED s
         ELSE /\ pc' = [pc EXCEPT ![c] = "put"]
              /\ s' = [s EXCEPT ![c] = r]
              /\ UNCHANGED <<m, detectErrs>>
    /\ UNCHANGED <<ended, nread, rules, rc, hitCache, admin, state, open,
                   consumed, scored, drops, parseErrs>>

\* detect, lines 148-156, and handle, lines 95-99: move the state next and
\* put it to the db.
DetectPut(c) ==
    /\ pc[c] = "put"
    /\ \E ioerr \in BOOLEAN :
         LET r == Put(state, m[c], cursorNext(PrevState(s[c]), m[c]), ioerr) IN
         /\ state' = r.state
         /\ pc' = [pc EXCEPT ![c] = AfterDetect(r.err)]
         /\ m' = [m EXCEPT ![c] = IF AfterDetect(r.err) = "scan" THEN NoMetric
                                   ELSE [@ EXCEPT !.put = (r.err = "nil")]]
         /\ scored' = IF r.err = "nil" THEN scored + 1 ELSE scored
         /\ detectErrs' = IF AfterDetect(r.err) = "scan" THEN detectErrs + 1 ELSE detectErrs
    /\ s' = [s EXCEPT ![c] = [s |-> 0, err |-> "nil"]]
    /\ UNCHANGED <<ended, nread, rules, rc, hitCache, admin, open,
                   consumed, drops, parseErrs>>

\* handle, lines 100-106: send the metric to d.rc, or drop it with a warning.
Send(c) ==
    /\ pc[c] = "send"
    /\ LET r == SelectSend(rc, m[c]) IN
         /\ rc' = r.rc
         /\ drops' = IF r.outcome = "dropped" THEN drops + 1 ELSE drops
         /\ pc' = [pc EXCEPT ![c] = IF r.outcome = "blocked" THEN "blocked" ELSE "scan"]
         /\ m' = [m EXCEPT ![c] = IF r.outcome = "blocked" THEN @ ELSE NoMetric]
    /\ UNCHANGED <<ended, nread, rules, s, hitCache, admin, state, open,
                   consumed, scored, detectErrs, parseErrs>>

\* The consumer of d.rc receives the oldest buffered metric.
Consume ==
    /\ Len(rc) > 0
    /\ consumed' = Append(consumed, Head(rc))
    /\ rc' = Tail(rc)
    /\ UNCHANGED <<ended, pc, nread, m, rules, s, hitCache, admin, state, open,
                   scored, detectErrs, drops, parseErrs>>

\* The rule set kept by the admin db is edited.
ChangeRules ==
    /\ admin.version <= MaxRuleChanges
    /\ \E R \in RuleSets \ {admin.rules} :
         admin' = [version |-> admin.version + 1, rules |-> R]
    /\ UNCHANGED <<ended, pc, nread, m, rules, s, rc, hitCache, state, open, hist>>

Next ==
    \/ \E c \in Conns : Accept(c)
    \/ \E c \in Conns : ReadLine(c)
    \/ \E c \in Conns : Close(c)
    \/ \E c \in Conns : MatchCache(c)
    \/ \E c \in Conns : MatchBlackList(c)
    \/ \E c \in Conns : MatchGetRules(c)
    \/ \E c \in Conns : MatchUpdateRules(c)
    \/ \E c \in Conns : MatchRules(c)
    \/ \E c \in Conns : DetectGet(c)
    \/ \E c \in Conns : DetectPut(c)
    \/ \E c \in Conns : Send(c)
    \/ Consume
    \/ ChangeRules

Spec == Init /\ [][Next]_vars

\* ------------------------------------------- specification with fairness
\* The peer ends the stream of connection c, or a read of it fails, at any
\* moment of the handler's work; scanner.Scan() (line 79) returns false the
\* next time the handler calls it.
StreamEnd(c) ==
    /\ c \in open
    /\ c \notin ended
    /\ ended' = ended \cup {c}
    /\ UNCHANGED <<pc, nread, m, rules, s, rc, hitCache, admin, state, open, hist>>

\* handle, lines 79-93: a line is read only from a stream that has not ended.
ScanLine(c) == c \notin ended /\ ReadLine(c)

\* handle, lines 72-83: the loop is left once the stream has ended.
ScanEnd(c) == c \in ended /\ Close(c)

\* The steps of the goroutine of connection c that wait for nothing but the
\* scheduler: everything but the arrival of a line.
HandlerStep(c) ==
    \/ ScanEnd(c)
    \/ MatchCache(c)
    \/ MatchBlackList(c)
    \/ MatchGetRules(c)
    \/ MatchUpdateRules(c)
    \/ MatchRules(c)
    \/ DetectGet(c)
    \/ DetectPut(c)
    \/ Send(c)

\* The detector with the rule set it was started with: an edit of the rules
\* changes what match returns, not the steps a handler can take.
LiveNext ==
    \/ \E c \in Conns : Accept(c)
    \/ \E c \in Conns : StreamEnd(c)
    \/ \E c \in Conns : ScanLine(c)
    \/ \E c \in Conns : HandlerStep(c)
    \/ Consume

\* The Go scheduler runs every runnable goroutine eventually; nothing is
\* assumed about the peers or the consumer of d.rc.
LiveSpec ==
    /\ Init
    /\ [][LiveNext]_vars
    /\ \A c \in Conns : WF_vars(HandlerStep(c))

\* ---------------------------------------------------------------- claims
\* Definitions used to state the claims, independent of the operators above.
Limit == bufferedMetricResultsLimit
InFlight == {c \in Conns : pc[c] = "send"}
Blacklisted == {n \in Names : \E i \in 1..Len(BlackList) : Match(n, BlackList[i])}
Hits(rs, n) == {i \in 1..Len(rs) : Match(n, rs[i].pattern)}
Delivered == consumed \o rc
Returned(c, from) == pc[c] \in from /\ pc'[c] \notin from

\* C1: the results channel never holds more than its capacity and no
\* handler ever waits for room in it: a handler that reaches the select
\* while the channel is full logs the drop, leaves the channel as it is and
\* goes back to scanning its next line.
C1_Step ==
    \A c \in Conns :
        (pc[c] = "send" /\ pc'[c] # "send" /\ Len(rc) = Limit) =>
            /\ pc'[c] = "scan"
            /\ rc' = rc
            /\ drops' = drops + 1
C1_NeverBlocks ==
    /\ [](Len(rc) <= Limit /\ \A c \in Conns : pc[c] # "blocked")
    /\ [][C1_Step]_vars
C1_Witness == drops > 0 /\ Len(rc) = Limit /\ \E c \in open : pc[c] = "scan"

\* C2: every metric that detect scored is in the channel, was received by
\* the consumer, was reported dropped, or is at the select right now; with
\* no consumer, capacity plus one scored metrics leave the channel full with
\* the metrics sent first (a send on a full channel changes nothing in it),
\* exactly one drop reported, and the consumer able to receive.
C2_Step ==
    \A c \in Conns :
        (pc[c] = "send" /\ pc'[c] # "send") =>
            \/ rc' = Append(rc, m[c]) /\ drops' = drops /\ Len(rc) < Limit
            \/ rc' = rc /\ drops' = drops + 1 /\ Len(rc) = Limit
C2_NoSilentLoss ==
    /\ [](scored = Len(rc) + Len(consumed) + drops + Cardinality(InFlight))
    /\ []((consumed = <<>> /\ InFlight = {} /\ scored = Limit + 1) =>
            (Len(rc) = Limit /\ drops = 1 /\ ENABLED Consume))
    /\ [][C2_Step]_vars
C2_Witness == consumed = <<>> /\ InFlight = {} /\ scored = Limit + 1 /\ drops = 1

\* C3: the metrics of one connection are sent to the channel, and received
\* by the consumer, in the order their lines were read.
C3_OrderPerConn ==
    \A i, j \in 1..Len(Delivered) :
        (i < j /\ Delivered[i].conn = Delivered[j].conn) =>
            Delivered[i].seq < Delivered[j].seq
C3_Witness ==
    /\ Len(consumed) = 2
    /\ consumed[1].conn = consumed[2].conn
    /\ consumed[2].seq = consumed[1].seq + 2

\* C4: a match call that finds a verdict cached from a scan of a rule set
\* that is no longer the current one does not return that verdict: what it
\* returns is what the current rule set gives for the name.
C4_Step ==
    \A c \in Conns :
        (/\ Returned(c, {"match"})
         /\ hitCache.wlc[m[c].name].hit
         /\ hitCache.wlc[m[c].name].src = "rules"
         /\ hitCache.wlc[m[c].name].ver # admin.version) =>
            pc'[c] = IF Hits(admin.rules, m[c].name) # {} THEN "get" ELSE "scan"
C4_NoStaleVerdict == [][C4_Step]_vars
\* The same with one connection only: the second line of connection 1 is
\* answered from the entry its first line left, after the rules changed.
C4_Sequential ==
    /\ pc[2] = "idle" /\ pc[1] = "match" /\ m[1].seq = 2
    /\ hitCache.wlc[m[1].name].hit
    /\ hitCache.wlc[m[1].name].matched
    /\ hitCache.wlc[m[1].name].ver # admin.version
    /\ Hits(admin.rules, m[1].name) = {}

\* C5: every cache entry that came from a scan of the rules holds the
\* verdict and the rule that a scan of the rule set the cache last recorded
\* gives for that name.
C5_CacheCoherent ==
    \A n \in Names :
        (hitCache.wlc[n].hit /\ hitCache.wlc[n].src = "rules") =>
            LET h == Hits(hitCache.rules.rules, n) IN
            /\ hitCache.wlc[n].matched = (h # {})
            /\ h # {} => hitCache.wlc[n].rule = hitCache.rules.rules[Min(h)]

\* C6: match returns false for a name that hits a black pattern, whatever
\* the rules are; the verdict (false, no rule) is in the cache when match
\* returns, and any verdict the cache holds for such a name is that one.
C6_Step ==
    \A c \in Conns :
        (m[c].name \in Blacklisted /\ Returned(c, {"match", "blacklist"})) =>
            /\ pc'[c] = "scan"
            /\ hitCache'.wlc[m[c].name].hit
            /\ ~hitCache'.wlc[m[c].name].matched
            /\ hitCache'.wlc[m[c].name].rule = NoRule
C6_BlacklistPrecedence ==
    /\ [](\A c \in Conns : m[c].name \in Blacklisted => pc[c] \in {"match", "blacklist"})
    /\ [](\A n \in Blacklisted : hitCache.wlc[n].hit =>
            (~hitCache.wlc[n].matched /\ hitCache.wlc[n].rule = NoRule))
    /\ [][C6_Step]_vars
C6_Witness ==
    /\ hitCache.wlc[FooBar].hit
    /\ \E i \in 1..Len(admin.rules) : Match(FooBar, admin.rules[i].pattern)
    /\ \E c \in Conns : pc[c] = "match" /\ m[c].name = FooBar /\ m[c].seq > 1

\* C7: when the scan of the rules fetched finds rules that match the name,
\* match returns true and caches the one at the lowest position.
C7_Step ==
    \A c \in Conns :
        (pc[c] = "rules" /\ pc'[c] # "rules" /\ Hits(rules[c].rules, m[c].name) # {}) =>
            /\ pc'[c] = "get"
            /\ hitCache'.wlc[m[c].name].hit
            /\ hitCache'.wlc[m[c].name].matched
            /\ hitCache'.wlc[m[c].name].rule =
                   rules[c].rules[Min(Hits(rules[c].rules, m[c].name))]
C7_FirstMatchWins == [][C7_Step]_vars
C7_Witness ==
    /\ hitCache.wlc[SvcLatency].hit
    /\ hitCache.wlc[SvcLatency].rule.id = 1
    /\ Cardinality(Hits(hitCache.rules.rules, SvcLatency)) > 1
    /\ \E c \in Conns : pc[c] = "get" /\ m[c].name = SvcLatency

\* C8: when no rule matches the name, match caches the verdict (false, no
\* rule) before it returns false.
C8_Step ==
    \A c \in Conns :
        (pc[c] = "rules" /\ pc'[c] # "rules" /\ Hits(rules[c].rules, m[c].name) = {}) =>
            /\ pc'[c] = "scan"
            /\ hitCache'.wlc[m[c].name].hit
            /\ ~hitCache'.wlc[m[c].name].matched
            /\ hitCache'.wlc[m[c].name].rule = NoRule
C8_NegativeCached == [][C8_Step]_vars

\* C9: every metric that is in the channel, was received by the consumer or
\* stands at the select had its next state put to the db successfully, and
\* the db holds a state for its name.
C9_PutBeforeFinal ==
    /\ \A i \in 1..Len(Delivered) :
           Delivered[i].put /\ state[Delivered[i].name] > 0
    /\ \A c \in InFlight : m[c].put /\ state[m[c].name] > 0
C9_Witness == Len(consumed) > 0 /\ Len(rc) > 0 /\ drops > 0

\* C10: detect never calls Put after a Get that failed with an error other
\* than not-found; a failed Get or Put leaves the db and the channel as they
\* were, logs the error and sends the handler, its connection still open, to
\* its next line; a not-found Get is followed by the Put of a first state.
C10_Step ==
    \A c \in Conns :
        /\ (pc[c] \in {"get", "put"} /\ pc'[c] = "scan") =>
              /\ state' = state
              /\ rc' = rc
              /\ detectErrs' = detectErrs + 1
              /\ c \in open'
        /\ (pc[c] = "get" /\ pc'[c] = "put" /\ state[m[c].name] = 0) =>
              s'[c].err = "ErrNotFound"
        /\ (pc[c] = "put" /\ pc'[c] = "send" /\ s[c].err = "ErrNotFound") =>
              state'[m[c].name] = 1
C10_StoreFailure ==
    /\ [](\A c \in Conns : pc[c] = "put" => s[c].err \in {"nil", "ErrNotFound"})
    /\ [](\A c \in Conns : pc[c] \in {"get", "put"} => m[c].name \in Names)
    /\ [][C10_Step]_vars
C10_Witness ==
    /\ detectErrs = 1
    /\ nread[1] = 2 /\ nread[2] = 0
    /\ Len(rc) = 1 /\ rc[1].seq = 2
    /\ state[rc[1].name] = 1

\* C11: a line that fails to parse is logged and changes nothing else but
\* the count of lines read: the cache, the db, the channel and the other
\* histories stay as they are, the connection stays open and the handler is
\* back at scanning, from where its following lines are processed.
C11_Step ==
    \A c \in Conns :
        (nread'[c] # nread[c] /\ m'[c] = NoMetric) =>
            /\ pc'[c] = "scan"
            /\ c \in open'
            /\ parseErrs' = parseErrs + 1
            /\ UNCHANGED <<hitCache, state, rc, rules, s, admin, open,
                           consumed, scored, detectErrs, drops>>
C11_ParseFailure == [][C11_Step]_vars
C11_Witness ==
    /\ parseErrs = 1
    /\ nread[1] = 2 /\ nread[2] = 0
    /\ scored = 1
    /\ Len(rc) = 1 /\ rc[1].seq = 2

\* C12: a step of one handler, whatever happens in it (a parse error, a
\* detect error, a drop, the end of its stream), leaves every other handler
\* where it is, with its metric, its lines and its connection as they were;
\* a connection is open exactly while its handler runs, and a handler in the
\* middle of a line can always take its next step.
Moved(c) == pc'[c] # pc[c] \/ nread'[c] # nread[c]
LineStep(d) ==
    \/ MatchCache(d) \/ MatchBlackList(d) \/ MatchGetRules(d)
    \/ MatchUpdateRules(d) \/ MatchRules(d)
    \/ DetectGet(d) \/ DetectPut(d) \/ Send(d)
C12_Step ==
    \A c, d \in Conns :
        (c # d /\ Moved(c)) =>
            /\ pc'[d] = pc[d]
            /\ nread'[d] = nread[d]
            /\ m'[d] = m[d]
            /\ (d \in open') = (d \in open)
C12_Isolation ==
    /\ [](\A d \in Conns : (d \in open) = (pc[d] \notin {"idle", "done"}))
    /\ [](\A d \in Conns : pc[d] \notin {"idle", "scan", "done"} => ENABLED LineStep(d))
    /\ [][C12_Step]_vars
C12_Witness ==
    /\ pc[1] = "done"
    /\ parseErrs = 1 /\ detectErrs = 1
    /\ nread[1] = 2
    /\ pc[2] = "send"

\* C13: a metric for which match returns false (a cached false verdict, a
\* black pattern hit, or no rule hit) is given up at once: the step that
\* returns false leaves the db, the channel and the count of scored metrics
\* as they are and sends the handler to its next line, so no Get or Put is
\* made for it; a blacklisted name never has a state in the db and never
\* appears in the channel or at the consumer.
MatchReturnsFalse(c) ==
    \/ pc[c] = "match" /\ hitCache.wlc[m[c].name].hit /\ ~hitCache.wlc[m[c].name].matched
    \/ pc[c] = "blacklist" /\ m[c].name \in Blacklisted
    \/ pc[c] = "rules" /\ Hits(rules[c].rules, m[c].name) = {}
C13_Step ==
    \A c \in Conns :
        (MatchReturnsFalse(c) /\ pc'[c] # pc[c]) =>
            /\ pc'[c] = "scan"
            /\ m'[c] = NoMetric
            /\ UNCHANGED <<state, rc, scored, detectErrs, drops, consumed>>
C13_UnobservedNeverScored ==
    /\ [](\A n \in Blacklisted :
            /\ state[n] = 0
            /\ \A i \in 1..Len(Delivered) : Delivered[i].name # n
            /\ \A c \in Conns : pc[c] \in {"get", "put", "send"} => m[c].name # n)
    /\ [][C13_Step]_vars
C13_Witness ==
    /\ hitCache.wlc[FooBar].hit
    /\ nread[1] = 3
    /\ parseErrs = 0 /\ scored = 1 /\ detectErrs = 0
    /\ Len(rc) = 1 /\ rc[1].name = SvcLatency
    /\ admin.version = 1
    /\ pc[1] = "scan"

\* C14: while all lines so far came from one connection, every successful
\* detect raises the count stored for the metric's name: the first one
\* finds no state and stores count one, each later one stores the count
\* stored before plus one; a failed detect leaves the stored count as it is.
OnlyWriter(c) == \A d \in Conns \ {c} : nread[d] = 0
C14_Step ==
    \A c \in Conns :
        (OnlyWriter(c) /\ pc[c] = "put" /\ pc'[c] # "put") =>
            IF scored' = scored + 1
            THEN /\ state'[m[c].name] = state[m[c].name] + 1
                 /\ s[c].err = "ErrNotFound" => state'[m[c].name] = 1
                 /\ \A n \in Names \ {m[c].name} : state'[n] = state[n]
            ELSE state' = state
C14_CountMonotonic ==
    /\ [][C14_Step]_vars
    /\ [][\A n \in Names : (\E c \in Conns : OnlyWriter(c)) =>
              state'[n] >= state[n]]_vars
C14_Witness == nread[2] = 0 /\ state[SvcLatency] = 3 /\ scored = 3

\* C15: once the count stored for a name has reached the minimum (warm), no
\* later step stores a count below the minimum for it (cold).
Warm(st, n) == st[n] >= LeastC
C15_Step == \A n \in Names : Warm(state, n) => Warm(state', n)
C15_NeverBackToCold == [][C15_Step]_vars

\* C18: when no handler is inside detect, the counts stored in the db add up
\* to the number of detects that succeeded: each name's count is the number
\* of successful detects for it, none of them lost.
C18_NoLostUpdate ==
    (\A c \in Conns : pc[c] \notin {"get", "put"}) =>
        SumRead(state, Names) = scored

\* C16: when the cache holds an entry for the metric's name, match returns
\* the cached verdict in that very step: the handler goes to detect on true
\* and to its next line on false, without a blacklist scan, without fetching
\* the rules and with the cache left as it is.
C16_Step ==
    \A c \in Conns :
        (pc[c] = "match" /\ hitCache.wlc[m[c].name].hit /\ pc'[c] # pc[c]) =>
            /\ pc'[c] = IF hitCache.wlc[m[c].name].matched THEN "get" ELSE "scan"
            /\ UNCHANGED <<hitCache, rules, admin>>
C16_CacheHitShortCircuits == [][C16_Step]_vars
C16_Witness ==
    /\ admin.version = 1
    /\ nread[1] = 2 /\ nread[2] = 0
    /\ scored + detectErrs = 1
    /\ pc[1] = "get" /\ m[1].seq = 2

\* C17: under fair scheduling of the handlers, once the stream of a
\* connection has ended or a read of it has failed, its handler eventually
\* closes the connection and terminates, whether d.rc is full or never
\* drained and whatever parse or detect errors came before.
C17_Terminates ==
    \A c \in Conns : (c \in ended) ~> (pc[c] = "done" /\ c \notin open)
C17_Witness ==
    \E c \in ended :
        /\ pc[c] = "done" /\ c \notin open
        /\ Len(rc) = Limit /\ consumed = <<>>
        /\ parseErrs + detectErrs > 0

\* C19: while the rule set is the one the detector started with and only
\* one handler has read anything, every return of match gives the verdict
\* of a matcher without a cache: false for a name that matches a blacklist
\* pattern, otherwise true exactly when some rule's pattern matches it.
InMatch == {"match", "blacklist", "getrules", "updaterules", "rules"}
Reference(n) == n \notin Blacklisted /\ Hits(admin.rules, n) # {}
C19_Step ==
    \A c \in Conns :
        ( /\ admin.version = 1
          /\ \A o \in Conns \ {c} : nread[o] = 0
          /\ Returned(c, InMatch) ) =>
            pc'[c] = IF Reference(m[c].name) THEN "get" ELSE "scan"
C19_CacheTransparent == [][C19_Step]_vars
C19_Witness ==
    /\ admin.version = 1
    /\ nread[1] = 3 /\ nread[2] = 0
    /\ hitCache.wlc[FooBar].hit /\ hitCache.wlc[SvcLatency].hit
    /\ scored + detectErrs = 1
    /\ pc[1] = "get"

====
